---- MODULE Spec2Model ----
(***************************************************************************)
(* Model of sourcedetect.SourceDetect: the decode / cluster / group /      *)
(* identify pipeline (detect, close_detect, unique_detect, group_and_id).  *)
(*                                                                         *)
(* Numbers.  Pixel intensities are held in units of 1/FluxScale, pixel     *)
(* coordinates before int() in units of 1/CoordScale and probabilities and *)
(* class scores in hundredths, so that every comparison of the code is an  *)
(* exact integer comparison.  A coordinate is the tuple <<row, col>>.      *)
(***************************************************************************)
EXTENDS Integers, Sequences, FiniteSets, TLC

\* ------------------------------------------------------------------ bounds
NumFrames == 2          \* frames of the multi-frame input families
ImgRows   == 8          \* image height in pixels
ImgCols   == 12         \* image width in pixels
MaxCalls  == 2          \* method calls made on the object
ClusterPoints == 4      \* detections of the frame that is clustered

\* ------------------------------------------------------- program constants
GridSize     == 4       \* detect(grid_size=4)
CloseRange   == 4       \* close_detect: both axis differences <= 4
ClampLo      == 2       \* while int(p) < 2
ClampHi      == 509     \* while int(p) > 509
ClampStep    == 2       \* p += 2 / p -= 2
NoGroup      == -1      \* position_to_id.get(coord, -1)

FluxScale    == 2
CoordScale   == 2
NoSignal     == 3       \* 1.5  * FluxScale
Contaminated == 15      \* 7.5  * FluxScale
PeakMin      == 20      \* 10   * FluxScale
DefaultThreshold == 80  \* detect(threshold=0.8)
AnalyseThreshold == 90  \* analyse(threshold=0.9)
F32Mant      == 16777216 \* 2^24: the significand of the float32 predictions

\* ------------------------------------------------------------------ helpers
Rows == 0 .. (ImgRows - 1)
Cols == 0 .. (ImgCols - 1)
GridRows == ImgRows \div GridSize
GridCols == ImgCols \div GridSize

Abs(v) == IF v < 0 THEN -v ELSE v
SetMax(S) == CHOOSE m \in S : \A v \in S : v <= m
SetMin(S) == CHOOSE m \in S : \A v \in S : m <= v

\* Python's tuple order on coordinates
Less(p, q) == p[1] < q[1] \/ (p[1] = q[1] /\ p[2] < q[2])

RECURSIVE Insert(_, _)
Insert(p, s) ==
    IF s = <<>> THEN <<p>>
    ELSE IF Less(p, Head(s)) THEN <<p>> \o s
    ELSE <<Head(s)>> \o Insert(p, Tail(s))

\* sorted(list of coordinates)
RECURSIVE Sorted(_)
Sorted(s) == IF s = <<>> THEN <<>> ELSE Insert(Head(s), Sorted(Tail(s)))

Range(s) == { s[i] : i \in 1 .. Len(s) }
Contains(s, p) == \E i \in 1 .. Len(s) : s[i] = p

\* int(): truncation toward zero of a value held in units of 1/CoordScale
ToInt(v) == IF v >= 0 THEN v \div CoordScale ELSE -((-v) \div CoordScale)

\* ---------------------------------------------------------- detect: decoder
\* the spacing of the float32 values around magnitude m
RECURSIVE Quantum(_, _)
Quantum(m, q) == IF m < F32Mant * q THEN q ELSE Quantum(m, 2 * q)

\* the float32 nearest to n, ties to the even significand: the result of an
\* arithmetic operation on the np.float32 values x1, y1, px, py
RoundF32(n) ==
    LET m  == Abs(n)
        q  == Quantum(m, 1)
        lo == (m \div q) * q
        r  == m - lo
        mag == IF 2 * r < q THEN lo
               ELSE IF 2 * r > q THEN lo + q
               ELSE IF (lo \div q) % 2 = 0 THEN lo ELSE lo + q
    IN  IF n < 0 THEN -mag ELSE mag

\* "p += 2" and "p -= 2"
ShiftUp(p)   == RoundF32(p + ClampStep * CoordScale)
ShiftDown(p) == RoundF32(p - ClampStep * CoordScale)

\* the two while loops of one axis: shift by +2 while int(p) < 2, then by -2
\* while int(p) > 509
RECURSIVE ClampLow(_)
ClampLow(p) == IF ToInt(p) < ClampLo THEN ClampLow(ShiftUp(p)) ELSE p

RECURSIVE ClampHigh(_)
ClampHigh(p) == IF ToInt(p) > ClampHi THEN ClampHigh(ShiftDown(p)) ELSE p

Clamp(p) == ClampHigh(ClampLow(p))

\* (m * grid_size) + offset
Predicted(m, offset) == RoundF32(m * GridSize * CoordScale + offset)

\* px, py = (mx * grid_size) + x1, (my * grid_size) + y1, clamped, then int()
CellPx(mx, ch) == ToInt(Clamp(Predicted(mx, ch.x1)))
CellPy(my, ch) == ToInt(Clamp(Predicted(my, ch.y1)))

\* img[r0:r1, c0:c1]: the pixels of a numpy slice (stops beyond the array
\* are clipped; every start used by detect is >= 0 after the clamp)
Window(r0, r1, c0, c1) ==
    { <<r, c>> : r \in { k \in Rows : r0 <= k /\ k < r1 },
                 c \in { k \in Cols : c0 <= k /\ k < c1 } }

Win3(py, px) == Window(py - 1, py + 2, px - 1, px + 2)
Win5(py, px) == Window(py - 2, py + 3, px - 2, px + 3)

InImage(py, px) == py \in Rows /\ px \in Cols

\* the grid-level rejections with "prob <= threshold"
CellPassesAbove(ch, threshold) ==
    /\ ~ (ch.prob <= threshold)
    /\ ~ (ch.trash > ch.bright /\ ch.trash > ch.dim)

\* the two grid-level rejections
CellPasses(ch, threshold) ==
    /\ ~ (ch.prob < threshold)
    /\ ~ (ch.trash > ch.bright /\ ch.trash > ch.dim)

\* the four pixel-intensity rejections at the clamped location
PixelPasses(img, py, px) ==
    LET v3 == { img[p] : p \in Win3(py, px) }
        v5 == { img[p] : p \in Win5(py, px) }
    IN  /\ ~ (img[<<py, px>>] > -NoSignal /\ img[<<py, px>>] < NoSignal)
        /\ ~ (SetMin(v3) > -NoSignal /\ SetMax(v3) < NoSignal)
        /\ ~ (SetMax(v5) > Contaminated /\ SetMin(v5) < -Contaminated)
        /\ ~ (SetMax({ Abs(v) : v \in v3 }) < PeakMin)

\* the length of the slice [start:stop] of an axis of n pixels, start >= 0
SliceLen(start, stop, n) ==
    IF start >= n THEN 0 ELSE (IF stop < n THEN stop ELSE n) - start

\* np.where on the transposed window: the hits column by column
RECURSIVE WhereColumnMajor(_, _, _, _, _, _, _)
WhereColumnMajor(img, r0, c0, h, w, m, k) ==
    IF k >= h * w THEN <<>>
    ELSE IF Abs(img[<<r0 + (k % h), c0 + (k \div h)>>]) = m
         THEN << <<k % h, k \div h>> >> \o WhereColumnMajor(img, r0, c0, h, w, m, k + 1)
         ELSE WhereColumnMajor(img, r0, c0, h, w, m, k + 1)

\* np.where(abs(window) == m) on the h x w window whose corner is (r0, c0):
\* the indices within the window of the hits, row by row
RECURSIVE Where(_, _, _, _, _, _, _)
Where(img, r0, c0, h, w, m, k) ==
    IF k >= h * w THEN <<>>
    ELSE IF Abs(img[<<r0 + (k \div w), c0 + (k % w)>>]) = m
         THEN << <<k \div w, k % w>> >> \o Where(img, r0, c0, h, w, m, k + 1)
         ELSE Where(img, r0, c0, h, w, m, k + 1)

\* smax_i = (int(py)+smax[0][0]-1, int(px)+smax[1][0]-1)
SmaxI(py, px, smax) == << py + smax[1][1] - 1, px + smax[1][2] - 1 >>

\* smax = np.where(abs(window) == np.max(abs(window))) and smax_i
Smax(img, py, px) ==
    SmaxI(py, px,
          Where(img, py - 1, px - 1,
                SliceLen(py - 1, py + 2, ImgRows), SliceLen(px - 1, px + 2, ImgCols),
                SetMax({ Abs(img[p]) : p \in Win3(py, px) }), 0))

\* 1*(bright>dim): an int, not a bool
BrightBit(ch) == IF ch.bright > ch.dim THEN 1 ELSE 0


\* -------------------------------------------------------------------- state
VARIABLES
    flux,                   \* self.flux[a][<<row, col>>]
    y,                      \* self.y[a][<<my, mx>>]: the prediction vectors
    attrs,                  \* names of the output attributes assigned so far
    sources,                \* self.sources
    sources_by_frame,       \* self.sources_by_frame
    num_sources,            \* self.num_sources
    frames,                 \* self.frames
    flux_sign,              \* self.flux_sign
    variable_flag,          \* self.variable_flag
    sourceID,               \* self.sourceID
    close_sources,          \* self.close_sources
    close_sources_by_frame, \* self.close_sources_by_frame
    unique_sources,         \* self.unique_sources
    groups,                 \* self.groups
    groupID,                \* self.groupID
    n_detections,           \* self.n_detections
    calls,                  \* the calls made on the object, oldest first
    clamp                   \* the clamp loops of detect run statement by
                            \* statement: position, cell, px and py

inputs  == << flux, y >>
decoded == << sources, sources_by_frame, num_sources, frames, flux_sign,
              variable_flag, sourceID >>
closed  == << close_sources, close_sources_by_frame >>
grouped == << groups, groupID, n_detections >>
vars    == << flux, y, attrs, sources, sources_by_frame, num_sources, frames,
              flux_sign, variable_flag, sourceID, close_sources,
              close_sources_by_frame, unique_sources, groups, groupID,
              n_detections, calls, clamp >>

NoError == "none"
EmptyMap == [ c \in {} |-> 0 ]
Put(m, k, v) == [ c \in (DOMAIN m) \cup {k} |-> IF c = k THEN v ELSE m[c] ]

\* a variable_flag value: the int 0 or 1, or the bool False or True
IntVal(b)  == [ isBool |-> FALSE, val |-> b ]
BoolVal(b) == [ isBool |-> TRUE,  val |-> b ]

\* the cells in the order of "for mx in range(j): for my in range(i)"
CellOrder ==
    [ k \in 1 .. (GridRows * GridCols) |->
        [ mx |-> (k - 1) \div GridRows, my |-> (k - 1) % GridRows ] ]

\* detect without the reset of self.sources: a second pass appends to the list
\* of the first
DetectResetKeepsSources(old) ==
    [ sources |-> old.sources, sources_by_frame |-> <<>>, num_sources |-> <<>>,
      frames |-> <<>>, flux_sign |-> <<>>, variable_flag |-> EmptyMap,
      sourceID |-> old.sourceID,
      positions |-> <<>>, numb_sources |-> 0,
      raised |-> NoError ]

\* self.sources, ... = [], [] ... at the head of detect
DetectReset(old) ==
    [ sources |-> <<>>, sources_by_frame |-> <<>>, num_sources |-> <<>>,
      frames |-> <<>>, flux_sign |-> <<>>, variable_flag |-> EmptyMap,
      sourceID |-> old.sourceID,
      positions |-> <<>>, numb_sources |-> 0,
      raised |-> NoError ]

\* the flag update that stores the latest comparison instead of comparing
FlagUpdateOverwrite(vf, c, bit) == Put(vf, c, IntVal(bit))

\* the update of self.variable_flag[smax_i] on one accepted candidate
FlagUpdate(vf, c, bit) ==
    IF c \notin DOMAIN vf THEN Put(vf, c, IntVal(bit))
    ELSE IF vf[c].val # bit THEN Put(vf, c, BoolVal(1))
    ELSE vf

\* the accepted candidate: the appends and the flag update at smax_i
Accept(d, a, ch, smax_i) ==
    [ d EXCEPT
        !.numb_sources = @ + 1,
        !.positions = Append(@, smax_i),
        !.sources = Append(@, smax_i),
        !.frames = Append(@, a),
        !.variable_flag = FlagUpdate(@, smax_i, BrightBit(ch)),
        !.flux_sign = Append(@, IF flux[a][smax_i] > 0 THEN "positive"
                                                     ELSE "negative") ]

\* the cell body from the clamped pixel (py, px) on
DecodeAt(d, a, ch, py, px) ==
    IF ~ InImage(py, px) THEN [ d EXCEPT !.raised = "IndexError" ]
    ELSE IF ~ PixelPasses(flux[a], py, px) THEN d
    ELSE Accept(d, a, ch, Smax(flux[a], py, px))

\* the cell body from the prediction vector ch on
DecodeVector(d, a, cell, ch, threshold) ==
    IF d.raised # NoError THEN d
    ELSE IF ~ CellPasses(ch, threshold) THEN d
    ELSE DecodeAt(d, a, ch, CellPy(cell.my, ch), CellPx(cell.mx, ch))

\* the body of the cell loop for frame a, cell (my, mx)
DecodeCell(d, a, cell, threshold) ==
    DecodeVector(d, a, cell, y[a][<<cell.my, cell.mx>>], threshold)

RECURSIVE DecodeCells(_, _, _, _)
DecodeCells(d, a, k, threshold) ==
    IF k > Len(CellOrder) THEN d
    ELSE DecodeCells(DecodeCell(d, a, CellOrder[k], threshold), a, k + 1, threshold)

\* the body of "for a in range(0,len(self.flux))"
EndFrame(e) ==
    IF e.raised # NoError THEN e
    ELSE [ e EXCEPT !.sources_by_frame = Append(@, Sorted(e.positions)),
                    !.num_sources = Append(@, e.numb_sources) ]

DecodeFrame(d, a, threshold) ==
    EndFrame(DecodeCells([ d EXCEPT !.positions = <<>>, !.numb_sources = 0 ],
                         a, 1, threshold))

\* len(self.flux)
NFrames == Cardinality(DOMAIN flux)

RECURSIVE DecodeFrames(_, _, _)
DecodeFrames(d, a, threshold) ==
    IF a >= NFrames THEN d
    ELSE DecodeFrames(DecodeFrame(d, a, threshold), a + 1, threshold)

\* the finalization that leaves the int values in place
FlagFinalKeep(v) == v

\* "if type(self.variable_flag[i]) != bool: self.variable_flag[i] = False"
FlagFinal(v) == IF v.isBool THEN v ELSE BoolVal(0)

FinalizeFlags(vf) == [ c \in DOMAIN vf |-> FlagFinal(vf[c]) ]

\* the sourceID loop with "id += 1" outside the if
RECURSIVE AssignIDsEveryEntry(_, _, _, _)
AssignIDsEveryEntry(srcs, k, ids, id) ==
    IF k > Len(srcs) THEN ids
    ELSE IF srcs[k] \in DOMAIN ids THEN AssignIDsEveryEntry(srcs, k + 1, ids, id + 1)
    ELSE AssignIDsEveryEntry(srcs, k + 1, Put(ids, srcs[k], id), id + 1)

\* the sourceID loop: "if s not in self.sourceID: self.sourceID[s] = id; id += 1"
RECURSIVE AssignIDs(_, _, _, _)
AssignIDs(srcs, k, ids, id) ==
    IF k > Len(srcs) THEN ids
    ELSE IF srcs[k] \in DOMAIN ids THEN AssignIDs(srcs, k + 1, ids, id)
    ELSE AssignIDs(srcs, k + 1, Put(ids, srcs[k], id), id + 1)

\* detect up to and including the sourceID loop
AfterFrames(d) ==
    IF d.raised # NoError THEN d
    ELSE [ d EXCEPT !.variable_flag = FinalizeFlags(d.variable_flag),
                    !.sourceID = AssignIDs(d.sources, 1, EmptyMap, 0) ]

Decode(old, threshold) == AfterFrames(DecodeFrames(DetectReset(old), 0, threshold))


\* ------------------------------------------------------------- close_detect
\* the proximity test of two detections
Close(p, q) == Abs(p[1] - q[1]) <= CloseRange /\ Abs(p[2] - q[2]) <= CloseRange

\* the first double loop without its "if i != j"
RECURSIVE NeighboursWithSelf(_, _, _)
NeighboursWithSelf(f, i, j) ==
    IF j > Len(f) THEN <<>>
    ELSE IF Close(f[i], f[j]) THEN <<f[j]>> \o NeighboursWithSelf(f, i, j + 1)
    ELSE NeighboursWithSelf(f, i, j + 1)

\* the first double loop: close_objs[i] lists, in list order, every other
\* detection of the frame within range of detection i
RECURSIVE Neighbours(_, _, _)
Neighbours(f, i, j) ==
    IF j > Len(f) THEN <<>>
    ELSE IF i # j /\ Close(f[i], f[j]) THEN <<f[j]>> \o Neighbours(f, i, j + 1)
    ELSE Neighbours(f, i, j + 1)

CloseObjs(f) == [ i \in 1 .. Len(f) |-> Neighbours(f, i, 1) ]

\* "for k ...: if close_objs[i][k] not in close_objs[j]: close_objs[j].append"
RECURSIVE MergeInto(_, _, _)
MergeInto(target, src, k) ==
    IF k > Len(src) THEN target
    ELSE IF Contains(target, src[k]) THEN MergeInto(target, src, k + 1)
    ELSE MergeInto(Append(target, src[k]), src, k + 1)

\* the merge condition that looks only at the lists after list i
MergeCondForward(f, co, i, j) == i < j /\ Contains(co[j], f[i])

\* the merge condition of the second double loop
MergeCond(f, co, i, j) == i # j /\ Contains(co[j], f[i])

RECURSIVE MergeJ(_, _, _, _)
MergeJ(f, co, i, j) ==
    IF j > Len(co) THEN co
    ELSE IF MergeCond(f, co, i, j)
         THEN MergeJ(f, [ co EXCEPT ![j] = MergeInto(co[j], co[i], 1) ], i, j + 1)
         ELSE MergeJ(f, co, i, j + 1)

RECURSIVE MergeI(_, _, _)
MergeI(f, co, i) ==
    IF i > Len(f) THEN co
    ELSE MergeI(f, MergeJ(f, co, i, 1), i + 1)

\* "if len(close_objs[i]) > 0 and sorted(close_objs[i]) not in _close_sources"
RECURSIVE Dedup(_, _, _)
Dedup(co, i, acc) ==
    IF i > Len(co) THEN acc
    ELSE IF Len(co[i]) > 0 /\ ~ Contains(acc, Sorted(co[i]))
         THEN Dedup(co, i + 1, Append(acc, Sorted(co[i])))
         ELSE Dedup(co, i + 1, acc)

\* _close_sources of one frame
CloseGroups(f) == Dedup(MergeI(f, CloseObjs(f), 1), 1, <<>>)

\* SelectSeq on the groups with len > 0 (every group of Dedup has)
NonEmpty(g) == Len(g) > 0

\* the two appends at the end of the frame loop
AddFrame(acc, cs) ==
    [ close_sources |-> acc.close_sources \o SelectSeq(cs, NonEmpty),
      close_sources_by_frame |-> Append(acc.close_sources_by_frame, cs) ]

RECURSIVE CloseDetect(_, _, _)
CloseDetect(sbf, s, acc) ==
    IF s > Len(sbf) THEN acc
    ELSE CloseDetect(sbf, s + 1, AddFrame(acc, CloseGroups(sbf[s])))

\* close_detect() on the per-frame detection lists sbf
CloseDetectAll(sbf) ==
    CloseDetect(sbf, 1, [ close_sources |-> <<>>, close_sources_by_frame |-> <<>> ])


\* ------------------------------------------------------------ unique_detect
\* the j loop for one detection p of frame s (1-based), L = number of j
\* values: add stays True iff p is in no [1:] of the groups looked at
UniqueAdd(csbf, s, L, p) ==
    \A j \in 1 .. L : ~ Contains(Tail(csbf[s][j]), p)

\* range(0,len(self.close_sources[s])): the bound of the j loop
UniqueJBound(cs, s) == Len(cs[s])

\* the subscripts of unique_detect that are out of range for frame s
UniqueRaises(sbf, cs, csbf, s) ==
    \/ s > Len(csbf)
    \/ /\ Len(csbf[s]) > 0
       /\ Len(sbf[s]) > 0
       /\ \/ s > Len(cs)
          \/ UniqueJBound(cs, s) > Len(csbf[s])

RECURSIVE UniqueKept(_, _, _, _, _)
UniqueKept(f, csbf, s, L, i) ==
    IF i > Len(f) THEN <<>>
    ELSE IF UniqueAdd(csbf, s, L, f[i])
         THEN <<f[i]>> \o UniqueKept(f, csbf, s, L, i + 1)
         ELSE UniqueKept(f, csbf, s, L, i + 1)

\* _unique_sources of frame s
UniqueFrame(sbf, cs, csbf, s) ==
    IF Len(csbf[s]) > 0
    THEN IF Len(sbf[s]) = 0 THEN <<>>
         ELSE UniqueKept(sbf[s], csbf, s, UniqueJBound(cs, s), 1)
    ELSE sbf[s]

RECURSIVE UniqueLoop(_, _, _, _, _)
UniqueLoop(sbf, cs, csbf, s, acc) ==
    IF s > Len(sbf) THEN acc
    ELSE IF UniqueRaises(sbf, cs, csbf, s) THEN [ acc EXCEPT !.raised = "IndexError" ]
    ELSE UniqueLoop(sbf, cs, csbf, s + 1,
             [ acc EXCEPT !.unique_sources = Append(@, UniqueFrame(sbf, cs, csbf, s)) ])

\* ------------------------------------------------------------- group_and_id
\* find(parent, x) with its path compression
RECURSIVE Find(_, _)
Find(parent, x) ==
    IF parent[x] # x
    THEN LET r == Find(parent, parent[x])
         IN  [ parent |-> [ r.parent EXCEPT ![x] = r.root ], root |-> r.root ]
    ELSE [ parent |-> parent, root |-> x ]

\* union that finds the two roots and links nothing
UnionNoLink(uf, x, yy) ==
    [ parent |-> Find(Find(uf.parent, x).parent, yy).parent, rank |-> uf.rank ]

\* union(parent, rank, x, y)
Union(uf, x, yy) ==
    LET fx == Find(uf.parent, x)
        fy == Find(fx.parent, yy)
        rootX == fx.root
        rootY == fy.root
        par == fy.parent
    IN  IF rootX = rootY THEN [ parent |-> par, rank |-> uf.rank ]
        ELSE IF uf.rank[rootX] > uf.rank[rootY]
             THEN [ parent |-> [ par EXCEPT ![rootY] = rootX ], rank |-> uf.rank ]
        ELSE IF uf.rank[rootX] < uf.rank[rootY]
             THEN [ parent |-> [ par EXCEPT ![rootX] = rootY ], rank |-> uf.rank ]
        ELSE [ parent |-> [ par EXCEPT ![rootY] = rootX ],
               rank |-> [ uf.rank EXCEPT ![rootX] = @ + 1 ] ]

\* "if coord not in parent: parent[coord] = coord; rank[coord] = 0"
RECURSIVE Register(_, _, _)
Register(uf, sublist, k) ==
    IF k > Len(sublist) THEN uf
    ELSE IF sublist[k] \in DOMAIN uf.parent THEN Register(uf, sublist, k + 1)
    ELSE Register([ parent |-> Put(uf.parent, sublist[k], sublist[k]),
                    rank |-> Put(uf.rank, sublist[k], 0) ], sublist, k + 1)

\* "for i in range(len(sublist) - 1): union(parent, rank, sublist[i], sublist[i+1])"
RECURSIVE UnionChain(_, _, _)
UnionChain(uf, sublist, i) ==
    IF i > Len(sublist) - 1 THEN uf
    ELSE UnionChain(Union(uf, sublist[i], sublist[i + 1]), sublist, i + 1)

RECURSIVE UnionAll(_, _, _)
UnionAll(uf, cs, k) ==
    IF k > Len(cs) THEN uf
    ELSE UnionAll(UnionChain(Register(uf, cs[k], 1), cs[k], 1), cs, k + 1)

\* the second loop of group() without the lookup of the root: every
\* close-group goes into the first entry
RECURSIVE CollectIntoFirst(_, _, _, _)
CollectIntoFirst(parent, cs, k, acc) ==
    IF k > Len(cs) THEN acc
    ELSE IF acc = <<>>
         THEN CollectIntoFirst(parent, cs, k + 1,
                  << [ root |-> cs[k][1], members |-> Range(cs[k]) ] >>)
         ELSE CollectIntoFirst(parent, cs, k + 1,
                  [ acc EXCEPT ![1].members = @ \cup Range(cs[k]) ])

\* the grouped dict, as the list of its (root, members) items in insertion order
RECURSIVE Collect(_, _, _, _)
Collect(parent, cs, k, acc) ==
    IF k > Len(cs) THEN acc
    ELSE LET f == Find(parent, cs[k][1])
             hit == { n \in 1 .. Len(acc) : acc[n].root = f.root }
         IN  IF hit = {}
             THEN Collect(f.parent, cs, k + 1,
                          Append(acc, [ root |-> f.root, members |-> Range(cs[k]) ]))
             ELSE Collect(f.parent, cs, k + 1,
                          [ n \in 1 .. Len(acc) |->
                              IF n \in hit
                              THEN [ acc[n] EXCEPT !.members = @ \cup Range(cs[k]) ]
                              ELSE acc[n] ])

\* group(close_sources): the list of groups, each the set of its coordinates
Members(gr) == [ n \in 1 .. Len(gr) |-> gr[n].members ]

Group(cs) ==
    Members(Collect(UnionAll([ parent |-> EmptyMap, rank |-> EmptyMap ], cs, 1).parent,
                    cs, 1, <<>>))

\* id_map with the groups numbered from 1
RECURSIVE IdMapFromOne(_, _, _)
IdMapFromOne(gs, k, acc) ==
    IF k > Len(gs) THEN acc
    ELSE IdMapFromOne(gs, k + 1, Append(acc, [ key |-> gs[k], idx |-> k ]))

\* id_map = {tuple(sorted(group)): idx for idx, group in enumerate(groups)},
\* as the list of its (key, idx) items in insertion order
RECURSIVE IdMap(_, _, _)
IdMap(gs, k, acc) ==
    IF k > Len(gs) THEN acc
    ELSE LET hit == { n \in 1 .. Len(acc) : acc[n].key = gs[k] }
         IN  IF hit = {}
             THEN IdMap(gs, k + 1, Append(acc, [ key |-> gs[k], idx |-> k - 1 ]))
             ELSE IdMap(gs, k + 1,
                        [ n \in 1 .. Len(acc) |->
                            IF n \in hit THEN [ acc[n] EXCEPT !.idx = k - 1 ]
                            ELSE acc[n] ])

\* "for coord in group: position_to_id[coord] = group_id"
RECURSIVE PositionToId(_, _, _)
PositionToId(idmap, k, acc) ==
    IF k > Len(idmap) THEN acc
    ELSE PositionToId(idmap, k + 1,
             [ c \in (DOMAIN acc) \cup idmap[k].key |->
                 IF c \in idmap[k].key THEN idmap[k].idx ELSE acc[c] ])

\* IDassign(groups, positions)
ResultDict(p2id, positions) ==
    [ c \in Range(positions) |-> IF c \in DOMAIN p2id THEN p2id[c] ELSE NoGroup ]

IDassign(gs, positions) ==
    ResultDict(PositionToId(IdMap(gs, 1, <<>>), 1, EmptyMap), positions)

\* get_num_detections that starts a new coordinate at 0
RECURSIVE GetNumDetectionsFromZero(_, _, _)
GetNumDetectionsFromZero(detections, k, acc) ==
    IF k > Len(detections) THEN acc
    ELSE IF detections[k] \in DOMAIN acc
         THEN GetNumDetectionsFromZero(detections, k + 1,
                                       [ acc EXCEPT ![detections[k]] = @ + 1 ])
         ELSE GetNumDetectionsFromZero(detections, k + 1, Put(acc, detections[k], 0))

\* get_num_detections that sets a repeated coordinate to 1 again
RECURSIVE GetNumDetectionsNoIncrement(_, _, _)
GetNumDetectionsNoIncrement(detections, k, acc) ==
    IF k > Len(detections) THEN acc
    ELSE GetNumDetectionsNoIncrement(detections, k + 1, Put(acc, detections[k], 1))

\* get_num_detections(detections)
RECURSIVE GetNumDetections(_, _, _)
GetNumDetections(detections, k, acc) ==
    IF k > Len(detections) THEN acc
    ELSE IF detections[k] \in DOMAIN acc
         THEN GetNumDetections(detections, k + 1,
                               [ acc EXCEPT ![detections[k]] = @ + 1 ])
         ELSE GetNumDetections(detections, k + 1, Put(acc, detections[k], 1))


\* ------------------------------------------------------------- the methods
\* the object's output attributes, as the record the methods transform
Self ==
    [ attrs |-> attrs, sources |-> sources, sources_by_frame |-> sources_by_frame,
      num_sources |-> num_sources, frames |-> frames, flux_sign |-> flux_sign,
      variable_flag |-> variable_flag, sourceID |-> sourceID,
      close_sources |-> close_sources,
      close_sources_by_frame |-> close_sources_by_frame,
      unique_sources |-> unique_sources, groups |-> groups, groupID |-> groupID,
      n_detections |-> n_detections, raised |-> NoError ]

\* the object with the output of the frame loop of close_detect
SetClose(o, cd) ==
    [ o EXCEPT !.close_sources = cd.close_sources,
               !.close_sources_by_frame = cd.close_sources_by_frame,
               !.attrs = @ \cup {"close"} ]

\* close_detect()
DoCloseDetect(o) ==
    IF "decoded" \notin o.attrs
    THEN [ o EXCEPT !.close_sources = <<>>, !.close_sources_by_frame = <<>>,
                    !.attrs = @ \cup {"close"}, !.raised = "AttributeError" ]
    ELSE SetClose(o, CloseDetectAll(o.sources_by_frame))

\* the try/except at the head of unique_detect
UniqueNeedsClose(o) == "close" \notin o.attrs

\* the object with the output of the frame loop of unique_detect
SetUnique(o, u) ==
    [ o EXCEPT !.unique_sources = u.unique_sources,
               !.attrs = @ \cup {"unique"}, !.raised = u.raised ]

\* unique_detect() after its try/except
UniqueBody(o) ==
    IF o.raised # NoError THEN o
    ELSE IF "decoded" \notin o.attrs
    THEN [ o EXCEPT !.unique_sources = <<>>, !.attrs = @ \cup {"unique"},
                    !.raised = "AttributeError" ]
    ELSE SetUnique(o, UniqueLoop(o.sources_by_frame, o.close_sources,
                                 o.close_sources_by_frame, 1,
                                 [ unique_sources |-> <<>>, raised |-> NoError ]))

\* unique_detect()
DoUniqueDetect(o) ==
    UniqueBody(IF UniqueNeedsClose(o) THEN DoCloseDetect(o) ELSE o)

\* the object with the output d of the decoding part of detect
SetDecoded(o, d) ==
    [ o EXCEPT !.sources = d.sources,
               !.sources_by_frame = d.sources_by_frame,
               !.num_sources = d.num_sources, !.frames = d.frames,
               !.flux_sign = d.flux_sign,
               !.variable_flag = d.variable_flag,
               !.sourceID = d.sourceID,
               !.attrs = IF d.raised # NoError THEN @ \cup {"decoded"}
                         ELSE @ \cup {"decoded", "sourceID"},
               !.raised = d.raised ]

\* "if unique == True: self.unique_detect()"
ThenUnique(o, unique) ==
    IF unique /\ o.raised = NoError THEN DoUniqueDetect(o) ELSE o

\* "if close == True: self.close_detect()" and what follows
ThenClose(o, close, unique) ==
    IF o.raised # NoError THEN o
    ELSE ThenUnique(IF close THEN DoCloseDetect(o) ELSE o, unique)

\* detect(threshold, grid_size=4, close, unique)
DoDetect(o, threshold, close, unique) ==
    ThenClose(SetDecoded(o, Decode(o, threshold)), close, unique)

\* group_and_id() from the call of IDassign on
SetGroups(o, gs) ==
    IF "decoded" \notin o.attrs
    THEN [ o EXCEPT !.groups = gs, !.attrs = @ \cup {"groups"},
                    !.raised = "AttributeError" ]
    ELSE [ o EXCEPT !.groups = gs,
                    !.groupID = IDassign(gs, o.sources),
                    !.n_detections = GetNumDetections(o.sources, 1, EmptyMap),
                    !.attrs = @ \cup {"groups", "groupID", "n_detections"} ]

\* group_and_id()
DoGroupAndId(o) ==
    IF "close" \notin o.attrs THEN [ o EXCEPT !.raised = "AttributeError" ]
    ELSE SetGroups(o, Group(o.close_sources))

\* ------------------------------------------------------------------ inputs
\* a prediction vector [prob, x1, y1, w, h, bright, dim, trash]
Quiet ==
    [ prob |-> 5, x1 |-> 0, y1 |-> 0, w |-> 0, h |-> 0,
      bright |-> 0, dim |-> 0, trash |-> 90 ]

\* a confident cell pointing x1, y1 pixels into its block
Hit(prob, x1, y1, bright) ==
    [ prob |-> prob, x1 |-> x1 * CoordScale, y1 |-> y1 * CoordScale, w |-> 0, h |-> 0,
      bright |-> IF bright THEN 90 ELSE 10, dim |-> IF bright THEN 10 ELSE 90,
      trash |-> 0 ]

Pixels == Rows \X Cols
Cells  == (0 .. (GridRows - 1)) \X (0 .. (GridCols - 1))

\* an image of point sources of amplitude 20.0 with a wing of 2.0 on the eight
\* surrounding pixels, on a zero background
PointSources(peaks) ==
    [ p \in Pixels |->
        IF p \in peaks THEN 20 * FluxScale
        ELSE IF \E q \in peaks : Abs(p[1] - q[1]) <= 1 /\ Abs(p[2] - q[2]) <= 1
             THEN 2 * FluxScale
        ELSE 0 ]

\* every grid that gives each cell of DOMAIN choice one of its vectors and is
\* Quiet elsewhere
RECURSIVE Choose(_, _)
Choose(choice, D) ==
    IF D = {} THEN { EmptyMap }
    ELSE LET c == CHOOSE c \in D : TRUE
         IN  { Put(g, c, v) : g \in Choose(choice, D \ {c}), v \in choice[c] }

Grids(choice) ==
    { [ c \in Cells |-> IF c \in DOMAIN g THEN g[c] ELSE Quiet ] :
        g \in Choose(choice, DOMAIN choice) }

Frames == 0 .. (NumFrames - 1)

\* Chain: three sources in a row, each 4 pixels from the next, one per cell;
\* the middle cell fires in every frame, the outer two in any combination,
\* the third only below 0.9
ChainImage == PointSources({ <<2, 2>>, <<2, 6>>, <<2, 10>> })
ChainGrids ==
    Grids(<<0, 0>> :> { Quiet, Hit(95, 2, 2, TRUE) } @@
          <<0, 1>> :> { Hit(95, 2, 2, TRUE) } @@
          <<0, 2>> :> { Quiet, Hit(85, 2, 2, TRUE) })
ChainInputs ==
    { [ flux |-> [ a \in Frames |-> ChainImage ], y |-> g ] :
        g \in [ Frames -> ChainGrids ] }

\* Repeat: one source that two neighbouring cells both point next to; in
\* each frame the first is silent, bright or dim, the second silent or bright
RepeatImage == PointSources({ <<2, 4>> })
RepeatGrids ==
    Grids(<<0, 0>> :> { Quiet, Hit(95, 3, 2, TRUE), Hit(95, 3, 2, FALSE) } @@
          <<0, 1>> :> { Quiet, Hit(95, 1, 2, TRUE) })
RepeatInputs ==
    { [ flux |-> [ a \in Frames |-> RepeatImage ], y |-> g ] :
        g \in [ Frames -> RepeatGrids ] }

\* Field: one frame with five sources in two rows, the last one out of range
\* of the others; the first two cells of the upper row point next to the same
\* source
FieldImage ==
    PointSources({ <<1, 4>>, <<1, 8>>, <<6, 2>>, <<6, 6>>, <<6, 11>> })
FieldGrids ==
    Grids(<<0, 0>> :> { Quiet, Hit(95, 3, 2, TRUE) } @@
          <<0, 1>> :> { Quiet, Hit(85, 1, 2, FALSE) } @@
          <<0, 2>> :> { Quiet, Hit(95, 0, 2, TRUE) } @@
          <<1, 0>> :> { Quiet, Hit(95, 2, 2, TRUE) } @@
          <<1, 1>> :> { Quiet, Hit(85, 2, 2, TRUE) } @@
          <<1, 2>> :> { Quiet, Hit(95, 2, 2, TRUE) })
FieldInputs ==
    { [ flux |-> [ a \in {0} |-> FieldImage ], y |-> [ a \in {0} |-> g ] ] :
        g \in FieldGrids }

\* Gap: five sources in two separate clusters, of two and of three; in each
\* frame every cell is silent or all five sources are detected
GapImage ==
    PointSources({ <<1, 1>>, <<1, 5>>, <<6, 3>>, <<6, 7>>, <<6, 11>> })
QuietGrid == [ c \in Cells |-> Quiet ]
GapGrids ==
    { QuietGrid } \cup
    Grids(<<0, 0>> :> { Hit(95, 2, 2, TRUE) } @@
          <<0, 1>> :> { Hit(95, 1, 2, TRUE) } @@
          <<1, 0>> :> { Hit(95, 3, 2, TRUE) } @@
          <<1, 1>> :> { Hit(95, 3, 2, TRUE) } @@
          <<1, 2>> :> { Hit(95, 3, 2, TRUE) })
GapInputs ==
    { [ flux |-> [ a \in Frames |-> GapImage ], y |-> g ] :
        g \in [ Frames -> GapGrids ] }

\* Pair: one source that moves by one pixel on both axes from frame to frame,
\* at (3,3) in the even frames and at (4,4) in the odd ones; one cell points at
\* (3,3) or is silent
PairImage(a) == PointSources({ IF a % 2 = 0 THEN <<3, 3>> ELSE <<4, 4>> })
PairGrids == Grids(<<0, 0>> :> { Quiet, Hit(95, 3, 3, TRUE) })
PairInputs ==
    { [ flux |-> [ a \in Frames |-> PairImage(a) ], y |-> g ] :
        g \in [ Frames -> PairGrids ] }

Inputs ==
    ChainInputs \cup RepeatInputs \cup FieldInputs \cup GapInputs \cup PairInputs

Thresholds == { DefaultThreshold, AnalyseThreshold }

\* ------------------------------------------------------------ specification
\* no clamp loop is being stepped through
ClampIdle == [ pc |-> "idle", cell |-> <<0, 0>>, px |-> 0, py |-> 0 ]

\* the object before any method has assigned an output attribute
NoOutputs ==
    /\ attrs = {}
    /\ sources = <<>> /\ sources_by_frame = <<>> /\ num_sources = <<>>
    /\ frames = <<>> /\ flux_sign = <<>>
    /\ variable_flag = EmptyMap /\ sourceID = EmptyMap
    /\ close_sources = <<>> /\ close_sources_by_frame = <<>>
    /\ unique_sources = <<>>
    /\ groups = <<>> /\ groupID = EmptyMap /\ n_detections = EmptyMap
    /\ calls = <<>>

Init ==
    /\ \E in \in Inputs : flux = in.flux /\ y = in.y
    /\ NoOutputs
    /\ clamp = ClampIdle

Call(op, threshold, close, unique, raised) ==
    [ op |-> op, threshold |-> threshold, close |-> close, unique |-> unique,
      raised |-> raised ]

\* the object after the call: every attribute takes its value in o
Becomes(o, op, threshold, close, unique) ==
    /\ attrs' = o.attrs
    /\ sources' = o.sources
    /\ sources_by_frame' = o.sources_by_frame
    /\ num_sources' = o.num_sources
    /\ frames' = o.frames
    /\ flux_sign' = o.flux_sign
    /\ variable_flag' = o.variable_flag
    /\ sourceID' = o.sourceID
    /\ close_sources' = o.close_sources
    /\ close_sources_by_frame' = o.close_sources_by_frame
    /\ unique_sources' = o.unique_sources
    /\ groups' = o.groups
    /\ groupID' = o.groupID
    /\ n_detections' = o.n_detections
    /\ calls' = Append(calls, Call(op, threshold, close, unique, o.raised))
    /\ UNCHANGED << inputs, clamp >>

Detect ==
    /\ Len(calls) < MaxCalls
    /\ \E threshold \in Thresholds, close \in BOOLEAN, unique \in BOOLEAN :
          Becomes(DoDetect(Self, threshold, close, unique),
                  "detect", threshold, close, unique)

CloseDetectCall ==
    /\ Len(calls) < MaxCalls
    /\ Becomes(DoCloseDetect(Self), "close_detect", 0, FALSE, FALSE)

UniqueDetectCall ==
    /\ Len(calls) < MaxCalls
    /\ Becomes(DoUniqueDetect(Self), "unique_detect", 0, FALSE, FALSE)

GroupAndId ==
    /\ Len(calls) < MaxCalls
    /\ Becomes(DoGroupAndId(Self), "group_and_id", 0, FALSE, FALSE)

Next == Detect \/ CloseDetectCall \/ UniqueDetectCall \/ GroupAndId

Spec == Init /\ [][Next]_vars

\* ------------------------------------------------------ one cell, one frame
\* the cell of the probe and the pixel its prediction points at
ProbeCell  == <<0, 0>>
ProbePoint == <<3, 3>>

ProbeVector(prob, bright, dim, trash) ==
    [ prob |-> prob, x1 |-> ProbePoint[2] * CoordScale,
      y1 |-> ProbePoint[1] * CoordScale, w |-> 0, h |-> 0,
      bright |-> bright, dim |-> dim, trash |-> trash ]

\* probabilities below, at and above the two thresholds; trash below, equal
\* to and above the other two classes
ProbeVectors ==
    { ProbeVector(79, 90, 10, 0), ProbeVector(80, 90, 10, 0),
      ProbeVector(90, 90, 10, 0), ProbeVector(95, 90, 10, 0),
      ProbeVector(95, 50, 10, 50), ProbeVector(95, 10, 50, 50),
      ProbeVector(95, 10, 20, 50) }

\* a zero image but for the value c at the probe point, n at two pixels of
\* its 3x3 window and f at a pixel of its 5x5 window outside the 3x3
ProbeImage(c, n, f) ==
    [ p \in Pixels |->
        IF p = ProbePoint THEN c
        ELSE IF p \in { <<ProbePoint[1] - 1, ProbePoint[2] + 1>>,
                        <<ProbePoint[1] + 1, ProbePoint[2] - 1>> } THEN n
        ELSE IF p = <<ProbePoint[1] + 2, ProbePoint[2] + 2>> THEN f
        ELSE 0 ]

\* 0, 1.5, -1.5, 9.5, 10, -10 at the point; 0, 10, -10 next to it; 0, 8, -8
\* further out
ProbeImages ==
    { ProbeImage(c, n, f) : c \in { 0, 3, -3, 19, 20, -20 },
                            n \in { 0, 20, -20 }, f \in { 0, 16, -16 } }

ProbeInit ==
    /\ \E img \in ProbeImages, v \in ProbeVectors :
          /\ flux = [ a \in {0} |-> img ]
          /\ y = [ a \in {0} |-> Put(QuietGrid, ProbeCell, v) ]
    /\ NoOutputs
    /\ clamp = ClampIdle

\* detect() on one frame in which one cell may fire
ProbeSpec == ProbeInit /\ [][Detect]_vars

\* --------------------------------------------------- one frame to cluster
\* the pixels a source can be at: neighbours 2 to 4 pixels apart, in chains
\* that run against the sorted order as well as along it
ClusterSites ==
    { <<2, 2>>, <<2, 6>>, <<2, 10>>, <<4, 11>>, <<6, 2>>, <<6, 4>>, <<7, 8>>,
      <<7, 11>> }

\* the coordinates of the set S in Python's tuple order
RECURSIVE SetSorted(_)
SetSorted(S) ==
    IF S = {} THEN <<>>
    ELSE LET m == CHOOSE m \in S : \A q \in S : m = q \/ Less(m, q)
         IN  <<m>> \o SetSorted(S \ {m})

\* single-pixel sources of amplitude 20.0 at the pixels of S
Deltas(S) == [ p \in Pixels |-> IF p \in S THEN 20 * FluxScale ELSE 0 ]

\* the k-th cell of the grid points at the k-th pixel of pts, the others are
\* silent
PointingAt(pts) ==
    [ c \in Cells |->
        IF \E k \in 1 .. Len(pts) : c = <<CellOrder[k].my, CellOrder[k].mx>>
        THEN LET k == CHOOSE k \in 1 .. Len(pts) :
                          c = <<CellOrder[k].my, CellOrder[k].mx>>
             IN  Hit(95, pts[k][2] - c[2] * GridSize, pts[k][1] - c[1] * GridSize, TRUE)
        ELSE Quiet ]

ClusterInit ==
    /\ \E S \in SUBSET ClusterSites :
          /\ Cardinality(S) <= ClusterPoints
          /\ flux = [ a \in {0} |-> Deltas(S) ]
          /\ y = [ a \in {0} |-> PointingAt(SetSorted(S)) ]
    /\ NoOutputs
    /\ clamp = ClampIdle

ClusterNext == Detect \/ CloseDetectCall

\* detect() and close_detect() on one frame of distinct detections
ClusterSpec == ClusterInit /\ [][ClusterNext]_vars

\* ------------------------------------------------- the clamp, step by step
\* the offsets x1 and y1 of the cell that is clamped, in units of 1/CoordScale:
\* -3.5, 0, 1.5, 3, 3.5, 510, and -2^26 and 2^26
ClampOffsets == { -7, 0, 3, 6, 7, 1020, -134217728, 134217728 }

Outputs == << attrs, sources, sources_by_frame, num_sources, frames, flux_sign,
              variable_flag, sourceID, close_sources, close_sources_by_frame,
              unique_sources, groups, groupID, n_detections, calls >>

\* one frame, one cell with a prediction that passes the grid-level tests
ClampInit ==
    /\ \E cell \in Cells, x1 \in ClampOffsets, y1 \in ClampOffsets :
          /\ y = [ a \in {0} |->
                    [ c \in Cells |->
                        IF c = cell
                        THEN [ Hit(95, 0, 0, TRUE) EXCEPT !.x1 = x1, !.y1 = y1 ]
                        ELSE Quiet ] ]
          /\ clamp = [ pc |-> "begin", cell |-> cell, px |-> 0, py |-> 0 ]
    /\ flux = [ a \in {0} |-> PointSources({}) ]
    /\ NoOutputs

\* line 256: px, py = (mx * grid_size) + x1, (my * grid_size) + y1
ClampBegin ==
    /\ clamp.pc = "begin"
    /\ clamp' = [ clamp EXCEPT
                    !.pc = "py_low",
                    !.px = Predicted(clamp.cell[2], y[0][clamp.cell].x1),
                    !.py = Predicted(clamp.cell[1], y[0][clamp.cell].y1) ]
    /\ UNCHANGED << inputs, Outputs >>

\* the test of a while loop: into the body, or on to the statement after it
ClampTest(at, cond, next) ==
    /\ clamp.pc = at
    /\ clamp' = [ clamp EXCEPT !.pc = IF cond THEN at \o "_shift" ELSE next ]
    /\ UNCHANGED << inputs, Outputs >>

\* lines 257, 259, 261, 263
ClampTests ==
    \/ ClampTest("py_low", ToInt(clamp.py) < ClampLo, "px_low")
    \/ ClampTest("px_low", ToInt(clamp.px) < ClampLo, "py_high")
    \/ ClampTest("py_high", ToInt(clamp.py) > ClampHi, "px_high")
    \/ ClampTest("px_high", ToInt(clamp.px) > ClampHi, "done")

\* lines 258, 260, 262, 264: the body of a while loop, then back to its test
ClampShifts ==
    \/ /\ clamp.pc = "py_low_shift"
       /\ clamp' = [ clamp EXCEPT !.pc = "py_low", !.py = ShiftUp(@) ]
       /\ UNCHANGED << inputs, Outputs >>
    \/ /\ clamp.pc = "px_low_shift"
       /\ clamp' = [ clamp EXCEPT !.pc = "px_low", !.px = ShiftUp(@) ]
       /\ UNCHANGED << inputs, Outputs >>
    \/ /\ clamp.pc = "py_high_shift"
       /\ clamp' = [ clamp EXCEPT !.pc = "py_high", !.py = ShiftDown(@) ]
       /\ UNCHANGED << inputs, Outputs >>
    \/ /\ clamp.pc = "px_high_shift"
       /\ clamp' = [ clamp EXCEPT !.pc = "px_high", !.px = ShiftDown(@) ]
       /\ UNCHANGED << inputs, Outputs >>

ClampNext == ClampBegin \/ ClampTests \/ ClampShifts

\* the interpreter runs the next statement for as long as there is one
ClampSpec == ClampInit /\ [][ClampNext]_vars /\ WF_vars(ClampNext)


\* ---------------------------------------------------------------- properties
Last == calls[Len(calls)]
Prev == calls[Len(calls) - 1]

\* detect() has just returned normally
AfterDetect == Len(calls) >= 1 /\ Last.op = "detect" /\ Last.raised = NoError

\* group_and_id() has just returned normally
AfterGroupAndId == Len(calls) >= 1 /\ Last.op = "group_and_id" /\ Last.raised = NoError

\* detect() and then group_and_id() have just returned normally
AfterDetectGroup ==
    /\ Len(calls) >= 2
    /\ AfterGroupAndId
    /\ Prev.op = "detect" /\ Prev.raised = NoError

\* detect(close=True) and then group_and_id() have just returned normally
AfterDetectCloseGroup == AfterDetectGroup /\ Prev.close

Detected == Range(sources)

\* the coordinates that occur in some close-group of some frame
InCloseGroup ==
    UNION { UNION { Range(close_sources_by_frame[s][g]) :
                      g \in 1 .. Len(close_sources_by_frame[s]) } :
              s \in 1 .. Len(close_sources_by_frame) }

\* number of entries of the list s equal to c
Count(s, c) == Cardinality({ k \in 1 .. Len(s) : s[k] = c })

RECURSIVE SumOver(_, _)
SumOver(f, S) ==
    IF S = {} THEN 0
    ELSE LET c == CHOOSE c \in S : TRUE IN f[c] + SumOver(f, S \ {c})

\* C1: after detect(close=True) and group_and_id(), all coordinates of a
\* per-frame close-group have the same groupID
C1_CloseGroupSharesGroupID ==
    AfterDetectCloseGroup =>
        \A s \in 1 .. Len(close_sources_by_frame) :
            \A g \in 1 .. Len(close_sources_by_frame[s]) :
                \A p, q \in Range(close_sources_by_frame[s][g]) :
                    groupID[p] = groupID[q]

\* two frames whose close-groups differ and share a coordinate
C1_Witness ==
    /\ AfterDetectCloseGroup
    /\ \E s, t \in 1 .. Len(close_sources_by_frame) :
          /\ Len(close_sources_by_frame[s]) > 0
          /\ Len(close_sources_by_frame[t]) > 0
          /\ LET a == Range(close_sources_by_frame[s][1])
                 b == Range(close_sources_by_frame[t][1])
             IN  a \cap b # {} /\ a \ b # {} /\ b \ a # {}

\* index of the first occurrence of c in sources
First(c) == CHOOSE k \in 1 .. Len(sources) :
                sources[k] = c /\ \A n \in 1 .. (k - 1) : sources[n] # c

\* C2: after detect(), sourceID maps the k distinct coordinates of sources
\* one-to-one onto 0 .. k-1, in the order of their first occurrence
C2_SourceIDDenseFirstSeen ==
    AfterDetect =>
        /\ DOMAIN sourceID = Detected
        /\ { sourceID[c] : c \in Detected } = 0 .. (Cardinality(Detected) - 1)
        /\ \A c, d \in Detected : First(c) < First(d) => sourceID[c] < sourceID[d]

\* a coordinate is seen again before another one is first seen
C2_Witness ==
    /\ AfterDetect
    /\ \E i, j, k \in 1 .. Len(sources) :
          /\ i < j /\ j < k
          /\ sources[i] = sources[j]
          /\ \A n \in 1 .. (k - 1) : sources[n] # sources[k]

\* C3 as stated: n_detections[c] is the number of frames in which c was
\* detected, a frame counting once however many of its cells give c
C3_OnePerFrame ==
    AfterDetectGroup =>
        \A c \in DOMAIN n_detections :
            n_detections[c] =
                Cardinality({ s \in 1 .. Len(sources_by_frame) :
                                c \in Range(sources_by_frame[s]) })

\* C3 amended: n_detections[c] is the number of accepted grid cells refined to
\* c, summed over the frames: a frame counts once for each such cell
C3_OnePerCellPerFrame ==
    AfterDetectGroup =>
        \A c \in DOMAIN n_detections :
            n_detections[c] =
                Cardinality({ e \in (1 .. Len(sources_by_frame)) \X (1 .. Cardinality(Cells)) :
                                /\ e[2] <= Len(sources_by_frame[e[1]])
                                /\ sources_by_frame[e[1]][e[2]] = c })

\* a frame in which two cells were refined to the same coordinate
C3_Witness ==
    /\ AfterDetectGroup
    /\ \E s \in 1 .. Len(sources_by_frame) :
          \E i, j \in 1 .. Len(sources_by_frame[s]) :
              i # j /\ sources_by_frame[s][i] = sources_by_frame[s][j]

\* C4: after group_and_id(), n_detections[c] is the number of entries of
\* sources equal to c, and the counts add up to len(sources)
C4_CountsSumToSources ==
    AfterDetectGroup =>
        /\ DOMAIN n_detections = Detected
        /\ \A c \in Detected : n_detections[c] = Count(sources, c)
        /\ SumOver(n_detections, DOMAIN n_detections) = Len(sources)

\* some coordinate counted more than once and another counted once
C4_Witness ==
    /\ AfterDetectGroup
    /\ \E c, d \in DOMAIN n_detections : n_detections[c] >= 2 /\ n_detections[d] = 1


\* the accepted candidates of a pass with the given threshold: one per frame
\* and grid cell that survives every rejection, with its canonical coordinate
\* and the result of its comparison bright > dim
Occurrences(threshold) ==
    { [ a |-> e[1], cell |-> e[2],
        c |-> Smax(flux[e[1]], CellPy(e[2][1], y[e[1]][e[2]]),
                               CellPx(e[2][2], y[e[1]][e[2]])),
        bright |-> y[e[1]][e[2]].bright > y[e[1]][e[2]].dim ] :
      e \in { e \in (DOMAIN flux) \X Cells :
                LET ch == y[e[1]][e[2]]
                IN  /\ CellPasses(ch, threshold)
                    /\ InImage(CellPy(e[2][1], ch), CellPx(e[2][2], ch))
                    /\ PixelPasses(flux[e[1]], CellPy(e[2][1], ch),
                                               CellPx(e[2][2], ch)) } }

\* C5: after detect(), variable_flag[c] is True iff two accepted occurrences
\* of c differ in bright > dim, and False otherwise
C5_FlagIffDisagreement ==
    AfterDetect =>
        LET occ == Occurrences(Last.threshold)
        IN  /\ DOMAIN variable_flag = { o.c : o \in occ }
            /\ \A c \in DOMAIN variable_flag :
                  variable_flag[c] =
                      IF \E o1, o2 \in occ :
                            o1.c = c /\ o2.c = c /\ o1.bright # o2.bright
                      THEN BoolVal(1) ELSE BoolVal(0)

\* a coordinate whose first two occurrences agree and whose third differs,
\* and a coordinate that occurs twice with the same result
C5_Witness ==
    /\ AfterDetect
    /\ \/ \E i, j, k \in 1 .. Len(sources) :
             /\ i < j /\ j < k
             /\ sources[i] = sources[j] /\ sources[j] = sources[k]
             /\ variable_flag[sources[i]] = BoolVal(1)
             /\ \E o1, o2, o3 \in Occurrences(Last.threshold) :
                   /\ o1.c = sources[i] /\ o2.c = o1.c /\ o3.c = o1.c
                   /\ o1.a = 0 /\ o2.a = 0 /\ o3.a = 1
                   /\ o1.cell # o2.cell
                   /\ o1.bright = o2.bright /\ o3.bright # o1.bright

\* C6: after detect(close=True) and group_and_id(), sourceID, n_detections,
\* variable_flag and groupID have the same keys, the detected coordinates, and
\* every variable_flag value is a bool
C6_MapsTotalOnDetected ==
    AfterDetectCloseGroup =>
        /\ DOMAIN sourceID = Detected
        /\ DOMAIN n_detections = Detected
        /\ DOMAIN variable_flag = Detected
        /\ DOMAIN groupID = Detected
        /\ \A c \in Detected : variable_flag[c].isBool

\* some detected coordinates are in a close-group, some are not, and some
\* coordinate was detected once only
C6_Witness ==
    /\ AfterDetectCloseGroup
    /\ Detected \cap InCloseGroup # {}
    /\ Detected \ InCloseGroup # {}
    /\ \E c \in Detected : Count(sources, c) = 1

\* C7: after detect(close=True) and group_and_id(), groupID[c] = -1 exactly for
\* the detected coordinates in no close-group; any other detected coordinate
\* has the index of a group of groups that contains it
C7_GroupIDOfDetected ==
    AfterDetectCloseGroup =>
        \A c \in Detected :
            IF c \in InCloseGroup
            THEN /\ 0 <= groupID[c] /\ groupID[c] < Len(groups)
                 /\ c \in groups[groupID[c] + 1]
            ELSE groupID[c] = NoGroup

\* two groups, and a detected coordinate outside both
C7_Witness ==
    /\ AfterDetectCloseGroup
    /\ Len(groups) >= 2
    /\ \E c \in Detected : groupID[c] = NoGroup
    /\ \E c \in Detected : groupID[c] = 1

\* close_detect() has just run to the end, on its own or inside detect()
AfterCloseDetect ==
    /\ Len(calls) >= 1
    /\ Last.raised = NoError
    /\ \/ Last.op = "close_detect"
       \/ Last.op = "detect" /\ Last.close /\ ~ Last.unique

\* C8: after close_detect(), the close-groups of a frame are pairwise disjoint
C8_CloseGroupsDisjoint ==
    AfterCloseDetect =>
        \A s \in 1 .. Len(close_sources_by_frame) :
            \A g, h \in 1 .. Len(close_sources_by_frame[s]) :
                g # h => Range(close_sources_by_frame[s][g])
                           \cap Range(close_sources_by_frame[s][h]) = {}

\* frame s (1-based) without the non-first members of its close-groups
WithoutLaterMembers(s) ==
    LET Keep(p) == \A g \in 1 .. Len(close_sources_by_frame[s]) :
                       ~ Contains(Tail(close_sources_by_frame[s][g]), p)
    IN  SelectSeq(sources_by_frame[s], Keep)

\* C9: unique_detect() on the close-groups of the same detect() call returns
\* normally, and unique_sources[s] is frame s without the non-first members of
\* its close-groups
C9_UniqueDetectKeepsFirsts ==
    (Len(calls) >= 1 /\ Last.op = "detect" /\ Last.close /\ Last.unique) =>
        /\ Last.raised = NoError
        /\ Len(unique_sources) = Len(sources_by_frame)
        /\ \A s \in 1 .. Len(sources_by_frame) :
              unique_sources[s] = WithoutLaterMembers(s)

\* C10: a detect() that follows a detect() with the same arguments leaves
\* sources, sources_by_frame, num_sources, frames, flux_sign, sourceID and
\* variable_flag as the first left them
C10_DetectTwiceSame ==
    [][ ( /\ Len(calls) >= 1
          /\ calls' = Append(calls, Last)
          /\ Last.op = "detect" )
        => decoded' = decoded ]_vars

\* the second of two equal detect() calls has returned, with a repeated
\* coordinate among its detections
C10_Witness ==
    /\ Len(calls) >= 2
    /\ Last.op = "detect" /\ Prev = Last
    /\ Len(sources) > Cardinality(Detected)
    /\ Cardinality(Detected) >= 2

\* close_detect() and then unique_detect() on the per-frame lists sbf
UniqueOf(sbf) ==
    LET cd == CloseDetectAll(sbf)
    IN  UniqueLoop(sbf, cd.close_sources, cd.close_sources_by_frame, 1,
                   [ unique_sources |-> <<>>, raised |-> NoError ])

\* detect(close=True, unique=True) has just run through its decoding
AfterDetectCloseUnique ==
    /\ Len(calls) >= 1
    /\ Last.op = "detect" /\ Last.close /\ Last.unique
    /\ Len(sources_by_frame) = NFrames

\* C11: a frame with zero detections never makes unique_detect raise: when
\* detect(close=True, unique=True) raises on a run with such a frame, the same
\* frames without the empty ones raise too
C11_EmptyFrameNeverRaises ==
    (AfterDetectCloseUnique /\ Last.raised # NoError
        /\ \E s \in 1 .. Len(sources_by_frame) : sources_by_frame[s] = <<>>)
    => UniqueOf(SelectSeq(sources_by_frame, NonEmpty)).raised # NoError

\* the all-empty run ends without error (used to see that the first half of
\* C11 is reached)
C11_AllEmptyRun ==
    /\ AfterDetectGroup /\ Prev.close /\ Prev.unique
    /\ sources = <<>> /\ groups = <<>> /\ close_sources = <<>>
    /\ \A s \in 1 .. Len(sources_by_frame) :
          sources_by_frame[s] = <<>> /\ close_sources_by_frame[s] = <<>>
    /\ sourceID = EmptyMap /\ variable_flag = EmptyMap
    /\ groupID = EmptyMap /\ n_detections = EmptyMap

\* the run of scenario B: frame s has the single detection p, frame t the
\* single detection q, within range of p, and no other frame has a detection
TwoFramePair(s, t, p, q) ==
    /\ s # t /\ p # q /\ Close(p, q)
    /\ sources_by_frame[s] = <<p>> /\ sources_by_frame[t] = <<q>>
    /\ \A r \in 1 .. Len(sources_by_frame) :
          r \notin {s, t} => sources_by_frame[r] = <<>>

\* some close-group of frame s lists both p and q
FrameGroupsBoth(s, p, q) ==
    \E g \in 1 .. Len(close_sources_by_frame[s]) :
        {p, q} \subseteq Range(close_sources_by_frame[s][g])

\* C12 as stated: in the two-frame run both frames' close-group lists contain
\* both coordinates, the coordinates share a groupID other than -1, and each
\* has n_detections 1
C12_PairGroupedAcrossFrames ==
    AfterDetectCloseGroup =>
        \A s, t \in 1 .. Len(sources_by_frame) : \A p, q \in Detected :
            TwoFramePair(s, t, p, q) =>
                /\ FrameGroupsBoth(s, p, q) /\ FrameGroupsBoth(t, p, q)
                /\ groupID[p] = groupID[q] /\ groupID[p] # NoGroup
                /\ n_detections[p] = 1 /\ n_detections[q] = 1

\* C12 amended: in the two-frame run no frame has a close-group, groups is
\* empty, both coordinates have groupID -1, and each has n_detections 1
C12_PairNotGroupedAcrossFrames ==
    AfterDetectCloseGroup =>
        \A s, t \in 1 .. Len(sources_by_frame) : \A p, q \in Detected :
            TwoFramePair(s, t, p, q) =>
                /\ \A r \in 1 .. Len(close_sources_by_frame) :
                      close_sources_by_frame[r] = <<>>
                /\ close_sources = <<>> /\ groups = <<>>
                /\ groupID[p] = NoGroup /\ groupID[q] = NoGroup
                /\ n_detections[p] = 1 /\ n_detections[q] = 1

\* the two-frame run with coordinates one pixel apart on both axes
C12_Witness ==
    /\ AfterDetectCloseGroup
    /\ \E s, t \in 1 .. Len(sources_by_frame) : \E p, q \in Detected :
          /\ TwoFramePair(s, t, p, q)
          /\ q[1] = p[1] + 1 /\ q[2] = p[2] + 1

\* the clamp loops of the cell have all been left
ClampDone == clamp.pc = "done"

\* C13: after the clamp both integer coordinates are within
\* [2, image_dimension - 3], so that the 3x3 and 5x5 windows are inside the
\* image
C13_ClampedInsideImage ==
    ClampDone =>
        /\ ClampLo <= ToInt(clamp.py) /\ ToInt(clamp.py) <= ImgRows - 3
        /\ ClampLo <= ToInt(clamp.px) /\ ToInt(clamp.px) <= ImgCols - 3
        /\ Win5(ToInt(clamp.py), ToInt(clamp.px)) =
              { << ToInt(clamp.py) + dr, ToInt(clamp.px) + dc >> :
                  dr \in -2 .. 2, dc \in -2 .. 2 }

\* C18: the four shift-by-2 loops of the clamp finish for every predicted
\* coordinate
C18_ClampTerminates == <>ClampDone

\* row-major order of two pixels
Before(p, q) == p[1] < q[1] \/ (p[1] = q[1] /\ p[2] < q[2])

\* the 3x3 and 5x5 pixel values around the probe point
Near(k) ==
    { flux[0][<<ProbePoint[1] + dr, ProbePoint[2] + dc>>] :
        dr \in -k .. k, dc \in -k .. k }

\* C14: the coordinate recorded for an accepted candidate is at most one
\* pixel from the clamped point on each axis, has the maximum absolute
\* intensity of the 3x3 window, and comes first in row-major order among the
\* pixels of the window that have it
C14_CanonicalIsFirstMaximum ==
    (AfterDetect /\ flux \in [ {0} -> ProbeImages ]) =>
        \A k \in 1 .. Len(sources) :
            LET c == sources[k]
                w == { <<ProbePoint[1] + dr, ProbePoint[2] + dc>> :
                         dr \in -1 .. 1, dc \in -1 .. 1 }
            IN  /\ c \in w
                /\ \A q \in w : Abs(flux[0][q]) <= Abs(flux[0][c])
                /\ \A q \in w : Abs(flux[0][q]) = Abs(flux[0][c])
                                    => (q = c \/ Before(c, q))

\* two pixels of the window tie for the maximum and the recorded one is
\* neither the clamped point nor the first of the window's columns
C14_Witness ==
    /\ AfterDetect /\ flux \in [ {0} -> ProbeImages ]
    /\ sources = << <<ProbePoint[1] - 1, ProbePoint[2] + 1>> >>
    /\ Abs(flux[0][<<ProbePoint[1] + 1, ProbePoint[2] - 1>>]) =
          Abs(flux[0][sources[1]])

\* the six conditions of C15 for the probe cell
C15_Conditions ==
    LET ch == y[0][ProbeCell]
        v  == flux[0][ProbePoint]
    IN  /\ ch.prob >= Last.threshold
        /\ ~ (ch.trash > ch.bright /\ ch.trash > ch.dim)
        /\ ~ (-NoSignal < v /\ v < NoSignal)
        /\ ~ (\A u \in Near(1) : -NoSignal < u /\ u < NoSignal)
        /\ ~ ((\E u \in Near(2) : u > Contaminated)
                /\ (\E u \in Near(2) : u < -Contaminated))
        /\ \E u \in Near(1) : Abs(u) >= PeakMin

\* C15: the cell produces a detection if and only if the six conditions
\* hold, boundary values included
C15_DetectionIffFilters ==
    (AfterDetect /\ flux \in [ {0} -> ProbeImages ]) =>
        (Len(sources) = 1 <=> C15_Conditions) /\ Len(sources) <= 1

\* accepted with the probability equal to the threshold, with trash equal to
\* a class score, and with a peak of exactly 10
C15_Witness ==
    /\ AfterDetect /\ flux \in [ {0} -> ProbeImages ]
    /\ Len(sources) = 1
    /\ \/ y[0][ProbeCell].prob = Last.threshold
       \/ y[0][ProbeCell].trash = y[0][ProbeCell].bright
    /\ \A u \in Near(1) : Abs(u) <= PeakMin

\* the detections of S linked to one of T by a chain of neighbours, two
\* detections being neighbours iff both axis differences are at most 4
RECURSIVE Linked(_, _)
Linked(T, S) ==
    LET more == { q \in S : \E t \in T : Abs(t[1] - q[1]) <= CloseRange
                                        /\ Abs(t[2] - q[2]) <= CloseRange }
    IN  IF more \subseteq T THEN T ELSE Linked(T \cup more, S)

\* the connected components of S with at least two members
Components(S) ==
    { c \in { Linked({p}, S) : p \in S } : Cardinality(c) >= 2 }

\* close_detect() has just filled the close-groups of the current detections
ClosedNow ==
    /\ Len(calls) >= 1
    /\ \/ Last.op = "close_detect" /\ Last.raised = NoError
       \/ Last.op = "detect" /\ Last.close /\ Len(close_sources_by_frame) = NFrames

\* C16: for a frame of pairwise distinct detections the close-groups are
\* exactly the connected components with at least two members, each listed
\* once, in sorted order
C16_CloseGroupsAreComponents ==
    ClosedNow =>
        \A s \in 1 .. Len(sources_by_frame) :
            LET f  == sources_by_frame[s]
                gs == close_sources_by_frame[s]
            IN  Cardinality(Range(f)) = Len(f) =>
                    /\ { Range(gs[g]) : g \in 1 .. Len(gs) } = Components(Range(f))
                    /\ Len(gs) = Cardinality(Components(Range(f)))
                    /\ \A g \in 1 .. Len(gs) : gs[g] = SetSorted(Range(gs[g]))

\* a chain of four detections that runs against the sorted order: the first
\* is out of range of the second and of the last, the second of the third
C16_Witness ==
    /\ ClosedNow /\ flux \in [ {0} -> { Deltas(S) : S \in SUBSET ClusterSites } ]
    /\ Len(sources_by_frame) = 1
    /\ Len(close_sources_by_frame[1]) = 1
    /\ Len(close_sources_by_frame[1][1]) = 4
    /\ LET g == close_sources_by_frame[1][1]
       IN  /\ ~ Close(g[1], g[2]) /\ ~ Close(g[2], g[3])
           /\ ~ Close(g[1], g[4])

\* the coordinates linked to one of T by a chain of close-groups in which
\* consecutive close-groups share a coordinate
RECURSIVE GroupLinked(_)
GroupLinked(T) ==
    LET more == UNION { Range(close_sources[k]) :
                          k \in { k \in 1 .. Len(close_sources) :
                                    Range(close_sources[k]) \cap T # {} } }
    IN  IF more \subseteq T THEN T ELSE GroupLinked(T \cup more)

\* C17: the groups of group_and_id() are pairwise disjoint, cover exactly the
\* coordinates of the close-groups, and each is the set of coordinates linked
\* to any of its members by a chain of close-groups
C17_GroupsAreComponents ==
    AfterGroupAndId =>
        /\ \A g, h \in 1 .. Len(groups) : g # h => groups[g] \cap groups[h] = {}
        /\ UNION { groups[g] : g \in 1 .. Len(groups) } =
              UNION { Range(close_sources[k]) : k \in 1 .. Len(close_sources) }
        /\ \A g \in 1 .. Len(groups) :
              /\ groups[g] # {}
              /\ \A p \in groups[g] : groups[g] = GroupLinked({p})

\* a group made of close-groups of different frames that share a coordinate,
\* larger than each of them
C17_Witness ==
    /\ AfterDetectCloseGroup
    /\ \E g \in 1 .. Len(groups) :
          /\ Cardinality(groups[g]) >= 3
          /\ \A k \in 1 .. Len(close_sources) :
                Range(close_sources[k]) # groups[g]

\* every call made so far is a detect() that returned normally
OnlyDetectCalls ==
    \A k \in 1 .. Len(calls) : calls[k].op = "detect" /\ calls[k].raised = NoError

\* C19: when detect() has returned and close_sources_by_frame exists, the
\* close-groups are the clusterer's output for the sources_by_frame of that
\* call, and the unique_sources of that call are derived from them
C19_CloseGroupsNeverStale ==
    (AfterDetect /\ "close" \in attrs /\ OnlyDetectCalls) =>
        /\ close_sources_by_frame =
              CloseDetectAll(sources_by_frame).close_sources_by_frame
        /\ close_sources = CloseDetectAll(sources_by_frame).close_sources
        /\ Last.unique => unique_sources = UniqueOf(sources_by_frame).unique_sources

====
